---- MODULE Spec2Model ----
(***************************************************************************)
(* A model of the context memory and anti-rot curation code of hermes-ai:  *)
(*   - ContextManagementService (services/context_management_service.py),  *)
(*     the in-process chunk store with retrieve / compress / sweep;        *)
(*   - the store, delete and summarize routes of                           *)
(*     api/context_management_routes.py;                                   *)
(*   - the conversation curator of main.py (create_message, curate).       *)
(*                                                                         *)
(* Strings are sequences of one-character strings.  Scores that the code   *)
(* keeps as floats are kept as exact integers: importance in units of      *)
(* 1/ScoreScale, relevance as the pair <<numerator, denominator>>.         *)
(* Every coroutine of the service awaits only coroutines that never        *)
(* suspend, and the handlers of main.py contain no await, so the event     *)
(* loop runs each call to completion: one call is one action.              *)
(* uuid4 ids are the numbers 1, 2, ... in order of issue; a chunk's opaque  *)
(* metadata is left out; datetime.now() never runs backwards.              *)
(***************************************************************************)
EXTENDS Integers, Sequences, FiniteSets, TLC

VARIABLES
    context_chunks,   \* ContextManagementService.context_chunks: id -> chunk
    context_summaries,\* ContextManagementService.context_summaries, by id
    issued,           \* number of ids handed out so far (uuid4 never repeats)
    clock,            \* datetime.now(), in days
    ticks,            \* how often the clock has advanced
    hits,             \* per live chunk: how often a retrieve call returned it
    last,             \* the most recent call of the service and what it returned
    messages,         \* the messages table, in created_at order
    summaries,        \* the summaries table, in created_at order
    AUTO_CURATE,      \* main.py's AUTO_CURATE setting
    lastCall          \* the most recent call of the curator and what it returned

vars == <<context_chunks, context_summaries, issued, clock, ticks, hits, last,
          messages, summaries, AUTO_CURATE, lastCall>>

storeVars == <<context_chunks, context_summaries, issued, clock, ticks, hits,
               last>>
curatorVars == <<messages, summaries, AUTO_CURATE, lastCall>>

----------------------------------------------------------------------------
(* Bounds of the model *)

MaxChunks == 2      \* ids the store hands out
MaxTicks == 1       \* clock advances
MaxAccess == 3      \* access_count a retrieve may reach
MaxMessages == 4    \* rows of the messages table
MaxSummaries == 2   \* rows of the summaries table
MaxContextSummaries == 1   \* entries of context_summaries

\* CONTEXT_BUDGET_MESSAGES is read from the environment (default 50); the
\* model runs the curator with a small budget
CONTEXT_BUDGET_MESSAGES == 3

Null == "None"

Min(a, b) == IF a <= b THEN a ELSE b
Max(a, b) == IF a >= b THEN a ELSE b

----------------------------------------------------------------------------
(* Strings *)

RECURSIVE Rep(_, _)
Rep(s, n) == IF n = 0 THEN <<>> ELSE s \o Rep(s, n - 1)

\* s[:n] for n >= 0
Head_(s, n) == SubSeq(s, 1, Min(n, Len(s)))

\* s[-n:] for n > 0
Tail_(s, n) == SubSeq(s, Max(1, Len(s) - n + 1), Len(s))

IsSpace(c) == c \in {" ", "\n"}

\* str.lower() on the alphabet of the model
LowerChar(c) == IF c = "A" THEN "a" ELSE IF c = "B" THEN "b" ELSE c

Lower(s) == [i \in 1..Len(s) |-> LowerChar(s[i])]

\* str.split(): the maximal runs of non-whitespace characters, as a set
WordStarts(s) ==
    {i \in 1..Len(s) : ~IsSpace(s[i]) /\ (i = 1 \/ IsSpace(s[i - 1]))}

WordEnd(s, i) ==
    CHOOSE j \in i..Len(s) :
        /\ (j = Len(s) \/ IsSpace(s[j + 1]))
        /\ \A k \in i..j : ~IsSpace(s[k])

WordSet(s) == {SubSeq(s, i, WordEnd(s, i)) : i \in WordStarts(s)}

\* positions of the character c in s
Positions(s, c) == {i \in 1..Len(s) : s[i] = c}

\* the first position of c in s at or after p (there is one)
NextPos(s, c, p) ==
    CHOOSE j \in p..Len(s) : s[j] = c /\ \A k \in p..(j - 1) : s[k] # c

----------------------------------------------------------------------------
(* The enumerations *)

ContextType == {"conversation", "code_analysis", "debate_session",
                "meditation_insight", "training_data", "user_feedback"}

\* ContextPriority: LOW = 1, MEDIUM = 2, HIGH = 3, CRITICAL = 4
ContextPriority == 1..4

decay_threshold == 30
compression_threshold == 100

\* importance scores are integers in units of 1 / ScoreScale
ScoreScale == 100000

----------------------------------------------------------------------------
(* What the model feeds the service *)

Ca == <<"a", " ", "b">>                              \* "a b"
Cz == <<"A", " ", "z">>                              \* "A z"
Cmid == Rep(<<"a", " ", "b", ".", " ">>, 24)         \* 120 characters
Clong == Rep(<<"a", " ", "z", ".">>, 101)            \* 404 characters

\* (content, context_type, priority) of the store_context calls
StoreInputs ==
    { <<Ca, "conversation", 1>>,        \* importance 0.3409, short
      <<Cz, "conversation", 4>>,        \* importance 0.6409, short
      <<Cmid, "conversation", 1>>,      \* importance 0.376
      <<Cmid, "meditation_insight", 4>>,\* importance 0.736
      <<Clong, "code_analysis", 2>> }   \* importance 0.5912

Queries == { <<"a", " ", "B">>,                      \* "a B"
             <<"a", " ", "p", " ", "q", " ", "r">>,  \* "a p q r"
             <<>> }                                  \* ""

TypeFilters == {Null, "conversation"}

Limits == {-1, 1, 10}

\* (content, context_type, priority) of the requests to the /store route;
\* both are strings there, and "medium" is what an omitted priority becomes
RouteInputs ==
    { <<Ca, "conversation", "medium">>,
      <<Cmid, "code_analysis", "low">>,
      <<Ca, "conversation", "high">>,
      <<Ca, "user_feedback", "critical">>,
      <<Ca, "conversation", "2">>,
      <<Ca, "conversation", "urgent">>,
      <<Ca, "chat", "medium">> }

\* context_ids of the summarize_contexts calls; MaxChunks + 1 is an id the
\* store never handed out
SummarizeInputs ==
    { <<>>, <<1>>, <<2, 1>>, <<1, MaxChunks + 1>>, <<MaxChunks + 1>> }

\* exactly the threshold (still fresh) and one day more (decayed)
ClockSteps == {decay_threshold, decay_threshold + 1}

\* "a" * n
Filled(n) == [i \in 1..n |-> "a"]

\* n characters of four-letter sentences: "zzzz.zzzz.zz" for n = 12
Sentences(n) == [i \in 1..n |-> IF i % 5 = 0 THEN "." ELSE "z"]

\* content lengths around the branch points of compress_context and
\* _compress_content: the threshold 100, the 200-character head, 400, and the
\* lengths at which the compressed form is as long as the original; and
\* around the 1000 characters at which the length score stops growing
Lengths == {1, 50, 99, 100, 101, 199, 200, 201, 215, 216, 217,
            399, 400, 401, 421, 422, 423, 1000, 1001}

----------------------------------------------------------------------------
(* The pure helpers of ContextManagementService *)

\* type_scores of _calculate_importance_score, times ScoreScale
TypeScore(context_type) ==
    CASE context_type = "conversation" -> 80000
      [] context_type = "code_analysis" -> 90000
      [] context_type = "debate_session" -> 95000
      [] context_type = "meditation_insight" -> 100000
      [] context_type = "training_data" -> 90000
      [] context_type = "user_feedback" -> 85000
      [] OTHER -> 50000

\* _calculate_importance_score without the cap of the length score
_calculate_importance_score_uncapped(content, context_type, priority) ==
    LET base_score == (priority * ScoreScale) \div 4
        length_score == (Len(content) * ScoreScale) \div 1000
        type_score == TypeScore(context_type)
        importance_score == (base_score * 4) \div 10
                            + (length_score * 3) \div 10
                            + (type_score * 3) \div 10
    IN  importance_score

\* base_score * 0.4 + length_score * 0.3 + type_score * 0.3, capped at 1.0
\* (every product below is an exact integer, so nothing is rounded)
_calculate_importance_score(content, context_type, priority) ==
    LET base_score == (priority * ScoreScale) \div 4
        length_score == Min((Len(content) * ScoreScale) \div 1000, ScoreScale)
        type_score == TypeScore(context_type)
        importance_score == (base_score * 4) \div 10
                            + (length_score * 3) \div 10
                            + (type_score * 3) \div 10
    IN  Min(importance_score, ScoreScale)

\* set(text.lower().split())
LowerWords(text) == WordSet(Lower(text))

\* |query words /\ content words| / |query words| as <<numerator, denominator>>
_calculate_relevance_score(query, content) ==
    LET query_words == LowerWords(query)
        content_words == LowerWords(content)
    IN  IF query_words = {} THEN <<0, 1>>
        ELSE <<Cardinality(query_words \cap content_words),
               Cardinality(query_words)>>

\* relevance_score > 0.3
AboveThreshold(r) == 10 * r[1] > 3 * r[2]

\* a > b for two relevance scores
RelGreater(a, b) == a[1] * b[2] > b[1] * a[2]

\* content.split('.'), then the first three pieces joined by '. ' plus '.'
_generate_summary(content) ==
    LET dots == Positions(content, ".")
    IN  IF Cardinality(dots) + 1 <= 3 THEN content
        ELSE LET d1 == NextPos(content, ".", 1)
                 d2 == NextPos(content, ".", d1 + 1)
                 d3 == NextPos(content, ".", d2 + 1)
             IN  SubSeq(content, 1, d1 - 1) \o <<".", " ">>
                 \o SubSeq(content, d1 + 1, d2 - 1) \o <<".", " ">>
                 \o SubSeq(content, d2 + 1, d3 - 1) \o <<".">>

MarkerShort == <<".", ".", ".", " ", "[", "c", "o", "m", "p", "r", "e", "s",
                 "s", "e", "d", "]">>

MarkerLong == <<"\n">> \o MarkerShort \o <<" ", ".", ".", ".", "\n">>

_compress_content(content) ==
    IF Len(content) <= compression_threshold THEN content
    ELSE IF Len(content) > 400
         THEN Head_(content, 200) \o MarkerLong \o Tail_(content, 200)
         ELSE Head_(content, 200) \o MarkerShort

----------------------------------------------------------------------------
(* The same helpers, tabulated for the strings the model stores and asks for: *)
(* each table entry is the helper's value, computed once.                     *)

KnownContents ==
    {in[1] : in \in StoreInputs} \cup {_compress_content(in[1]) : in \in StoreInputs}

RelevanceTable ==
    [q \in Queries, c \in KnownContents |-> _calculate_relevance_score(q, c)]

SummaryTable == [c \in KnownContents |-> _generate_summary(c)]

CompressTable == [c \in KnownContents |-> _compress_content(c)]

RelevanceOf(query, content) ==
    IF query \in Queries /\ content \in KnownContents
    THEN RelevanceTable[query, content]
    ELSE _calculate_relevance_score(query, content)

SummaryOf(content) ==
    IF content \in KnownContents THEN SummaryTable[content]
    ELSE _generate_summary(content)

CompressedFormOf(content) ==
    IF content \in KnownContents THEN CompressTable[content]
    ELSE _compress_content(content)

----------------------------------------------------------------------------
(* ContextManagementService *)

\* the ids of a chunk dict in the order the dict iterates them: insertion
\* order, which is the order of issue
RECURSIVE KeysFrom(_, _)
KeysFrom(chunks, i) ==
    IF i > issued THEN <<>>
    ELSE (IF i \in DOMAIN chunks THEN <<i>> ELSE <<>>) \o KeysFrom(chunks, i + 1)

Keys(chunks) == KeysFrom(chunks, 1)

Range(f) == {f[i] : i \in DOMAIN f}

Without(chunks, context_id) ==
    [i \in DOMAIN chunks \ {context_id} |-> chunks[i]]

\* NewChunk with the first access not counted
NewChunkUncounted(context_id, content, context_type, priority, now) ==
    [ id |-> context_id,
      content |-> content,
      context_type |-> context_type,
      priority |-> priority,
      created_at |-> now,
      last_accessed |-> now,
      access_count |-> 0,
      importance_score |->
          _calculate_importance_score(content, context_type, priority),
      compressed |-> FALSE,
      summary |-> Null ]

\* the ContextChunk that store_context builds
NewChunk(context_id, content, context_type, priority, now) ==
    [ id |-> context_id,
      content |-> content,
      context_type |-> context_type,
      priority |-> priority,
      created_at |-> now,
      last_accessed |-> now,
      access_count |-> 1,
      importance_score |->
          _calculate_importance_score(content, context_type, priority),
      compressed |-> FALSE,
      summary |-> Null ]

\* relevant_chunks.sort(key=lambda x: x[1], reverse=True) over the
\* (chunk id, relevance_score) pairs: stable, so equal scores keep the order
\* in which the scan appended them
RECURSIVE InsertDesc(_, _)
InsertDesc(sorted, x) ==
    IF sorted = <<>> THEN <<x>>
    ELSE IF RelGreater(x[2], Head(sorted)[2])
         THEN <<x>> \o sorted
         ELSE <<Head(sorted)>> \o InsertDesc(Tail(sorted), x)

RECURSIVE SortDesc(_)
SortDesc(seq) ==
    IF seq = <<>> THEN <<>>
    ELSE InsertDesc(SortDesc(SubSeq(seq, 1, Len(seq) - 1)), seq[Len(seq)])

\* seq[:limit] of Python, for any integer limit
Slice(seq, limit) ==
    IF limit >= 0 THEN SubSeq(seq, 1, Min(limit, Len(seq)))
    ELSE SubSeq(seq, 1, Max(Len(seq) + limit, 0))

\* the scan of retrieve_context: relevant_chunks, as (id, relevance_score)
RECURSIVE Scan(_, _, _, _)
Scan(keys, chunks, query, context_type) ==
    IF keys = <<>> THEN <<>>
    ELSE LET chunk == chunks[Head(keys)]
             relevance_score == RelevanceOf(query, chunk.content)
             rest == Scan(Tail(keys), chunks, query, context_type)
         IN  IF context_type # Null /\ chunk.context_type # context_type
             THEN rest
             ELSE IF AboveThreshold(relevance_score)
                  THEN <<<<Head(keys), relevance_score>>>> \o rest
                  ELSE rest

\* the ids of the chunks retrieve_context touches and returns, in order
Retrieved(chunks, query, context_type, limit) ==
    LET relevant_chunks == SortDesc(Scan(Keys(chunks), chunks, query, context_type))
        top == Slice(relevant_chunks, limit)
    IN  [k \in 1..Len(top) |-> top[k][1]]

\* Touch stamping a time that lies decay_threshold days back
TouchBackdated(chunk, now) ==
    [chunk EXCEPT !.last_accessed = now - decay_threshold,
                  !.access_count = @ + 1]

\* Touch without the access_count increment
TouchNoCount(chunk, now) == [chunk EXCEPT !.last_accessed = now]

\* Touch writing back a count computed from the value read at store time
TouchStale(chunk, now) ==
    [chunk EXCEPT !.last_accessed = now, !.access_count = 2]

\* the access bookkeeping of retrieve_context on one returned chunk
Touch(chunk, now) ==
    [chunk EXCEPT !.last_accessed = now, !.access_count = @ + 1]

\* Compressed with the importance score taken again from the new content
CompressedRescored(chunk) ==
    [chunk EXCEPT !.content = CompressedFormOf(chunk.content),
                  !.compressed = TRUE,
                  !.summary = SummaryOf(chunk.content),
                  !.importance_score =
                      _calculate_importance_score(CompressedFormOf(chunk.content),
                                                  chunk.context_type,
                                                  chunk.priority)]

\* Compressed without recording the summary
CompressedNoSummary(chunk) ==
    [chunk EXCEPT !.content = CompressedFormOf(chunk.content),
                  !.compressed = TRUE]

\* compress_context on one chunk that passed the guards
Compressed(chunk) ==
    [chunk EXCEPT !.content = CompressedFormOf(chunk.content),
                  !.compressed = TRUE,
                  !.summary = SummaryOf(chunk.content)]

\* Compressible with the threshold itself counted as too short
CompressibleAbove(chunks, context_id) ==
    /\ context_id \in DOMAIN chunks
    /\ ~(chunks[context_id].compressed
         \/ Len(chunks[context_id].content) <= compression_threshold)

\* Compressible without the test of chunk.compressed
CompressibleAgain(chunks, context_id) ==
    /\ context_id \in DOMAIN chunks
    /\ ~(Len(chunks[context_id].content) < compression_threshold)

\* the guards of compress_context: TRUE when it goes on to compress
Compressible(chunks, context_id) ==
    /\ context_id \in DOMAIN chunks
    /\ ~(chunks[context_id].compressed
         \/ Len(chunks[context_id].content) < compression_threshold)

\* compress_context: the store after the call and the value returned
compress_context(chunks, context_id) ==
    IF Compressible(chunks, context_id)
    THEN [chunks |-> [chunks EXCEPT ![context_id] = Compressed(@)],
          ret |-> TRUE]
    ELSE [chunks |-> chunks, ret |-> FALSE]

\* Decayed with the threshold itself counted as decayed
DecayedInclusive(chunk, now) == now - chunk.last_accessed >= decay_threshold

\* now - chunk.last_accessed > decay_threshold
Decayed(chunk, now) == now - chunk.last_accessed > decay_threshold

\* LowImportance with the comparison turned round
LowImportanceInverted(chunk) == 2 * chunk.importance_score > ScoreScale

\* chunk.importance_score < 0.5
LowImportance(chunk) == 2 * chunk.importance_score < ScoreScale

\* the loop of prevent_decay over the snapshot list(context_chunks.items())
RECURSIVE SweepLoop(_, _, _, _)
SweepLoop(items, chunks, decayed_count, now) ==
    IF items = <<>>
    THEN [chunks |-> chunks, ret |-> decayed_count, raised |-> FALSE]
    ELSE LET context_id == Head(items)[1]
             chunk == Head(items)[2]
         IN  IF Decayed(chunk, now)
             THEN IF LowImportance(chunk)
                  THEN IF context_id \notin DOMAIN chunks
                       THEN \* del raises KeyError; the handler re-raises it
                            [chunks |-> chunks, ret |-> decayed_count,
                             raised |-> TRUE]
                       ELSE SweepLoop(Tail(items), Without(chunks, context_id),
                                      decayed_count + 1, now)
                  ELSE SweepLoop(Tail(items),
                                 compress_context(chunks, context_id).chunks,
                                 decayed_count + 1, now)
             ELSE SweepLoop(Tail(items), chunks, decayed_count, now)

\* prevent_decay giving up after the first chunk of its snapshot
prevent_decay_first(chunks, now) ==
    LET keys == Keys(chunks)
        items == [k \in 1..Len(keys) |-> <<keys[k], chunks[keys[k]]>>]
    IN  SweepLoop(SubSeq(items, 1, Min(1, Len(items))), chunks, 0, now)

\* prevent_decay: the store after the call, the count returned, and whether
\* the call raised instead of returning
prevent_decay(chunks, now) ==
    LET keys == Keys(chunks)
        items == [k \in 1..Len(keys) |-> <<keys[k], chunks[keys[k]]>>]
    IN  SweepLoop(items, chunks, 0, now)

\* ContextType.value, as characters
TypeValue(context_type) ==
    CASE context_type = "conversation" ->
             <<"c", "o", "n", "v", "e", "r", "s", "a", "t", "i", "o", "n">>
      [] context_type = "code_analysis" ->
             <<"c", "o", "d", "e", "_", "a",
               "n", "a", "l", "y", "s", "i", "s">>
      [] context_type = "debate_session" ->
             <<"d", "e", "b", "a", "t", "e", "_",
               "s", "e", "s", "s", "i", "o", "n">>
      [] context_type = "meditation_insight" ->
             <<"m", "e", "d", "i", "t", "a", "t", "i", "o",
               "n", "_", "i", "n", "s", "i", "g", "h", "t">>
      [] context_type = "training_data" ->
             <<"t", "r", "a", "i", "n", "i",
               "n", "g", "_", "d", "a", "t", "a">>
      [] context_type = "user_feedback" ->
             <<"u", "s", "e", "r", "_", "f",
               "e", "e", "d", "b", "a", "c", "k">>

\* f"[{chunk.context_type.value}] {chunk.content}"
Tagged(chunk) ==
    <<"[">> \o TypeValue(chunk.context_type) \o <<"]", " ">> \o chunk.content

\* "\n\n".join(parts)
RECURSIVE JoinParts(_)
JoinParts(parts) ==
    IF parts = <<>> THEN <<>>
    ELSE IF Len(parts) = 1 THEN parts[1]
    ELSE parts[1] \o <<"\n", "\n">> \o JoinParts(Tail(parts))

\* the chunks summarize_contexts collects: those of context_ids that are in
\* the store, in the order of context_ids
RECURSIVE Found(_, _)
Found(chunks, context_ids) ==
    IF context_ids = <<>> THEN <<>>
    ELSE (IF Head(context_ids) \in DOMAIN chunks
          THEN <<chunks[Head(context_ids)]>> ELSE <<>>)
         \o Found(chunks, Tail(context_ids))

\* the "" that summarize_contexts returns when it collected no chunk; the ids
\* of summaries are 1, 2, ... in order of creation
NoSummaryId == 0

\* NewContextSummary recording the ids in the opposite order
NewContextSummaryReversed(summary_id, context_ids, chunks, now) ==
    [ id |-> summary_id,
      original_chunks |->
          [k \in 1..Len(context_ids) |-> context_ids[Len(context_ids) - k + 1]],
      summary_text |->
          _generate_summary(JoinParts([k \in 1..Len(chunks) |-> Tagged(chunks[k])])),
      created_at |-> now ]

\* the ContextSummary that summarize_contexts builds from the chunks it
\* collected (key_points, entities, relationships and quality_score, which
\* are derived from the same text, are left out)
NewContextSummary(summary_id, context_ids, chunks, now) ==
    [ id |-> summary_id,
      original_chunks |-> context_ids,
      summary_text |->
          _generate_summary(JoinParts([k \in 1..Len(chunks) |-> Tagged(chunks[k])])),
      created_at |-> now ]

\* summarize_contexts: context_summaries after the call and the id returned
summarize_contexts(chunks, known, context_ids, now) ==
    LET found == Found(chunks, context_ids)
        summary_id == Len(known) + 1
    IN  IF found = <<>>
        THEN [summaries |-> known, ret |-> NoSummaryId]
        ELSE [summaries |-> Append(known,
                                   NewContextSummary(summary_id, context_ids,
                                                     found, now)),
              ret |-> summary_id]

\* the status of the /summarize route for the id the service returned: 200
\* with the summary; for an id context_summaries does not hold, the 404 it
\* raises inside its try block is caught by its own `except Exception` and
\* leaves as 500
SummarizeStatus(known, summary_id) ==
    IF summary_id \in DOMAIN known THEN 200 ELSE 500

\* CountCompressed counting the chunks that are not compressed
RECURSIVE CountUncompressed(_, _)
CountUncompressed(keys, chunks) ==
    IF keys = <<>> THEN 0
    ELSE (IF chunks[Head(keys)].compressed THEN 0 ELSE 1)
         + CountUncompressed(Tail(keys), chunks)

\* sum(1 for chunk in self.context_chunks.values() if chunk.compressed)
RECURSIVE CountCompressed(_, _)
CountCompressed(keys, chunks) ==
    IF keys = <<>> THEN 0
    ELSE (IF chunks[Head(keys)].compressed THEN 1 ELSE 0)
         + CountCompressed(Tail(keys), chunks)

\* the counting loops of get_context_statistics over the field `field`:
\* counts[name] = counts.get(name, 0) + 1 for every chunk
RECURSIVE CountBy(_, _, _, _)
CountBy(keys, chunks, field, counts) ==
    IF keys = <<>> THEN counts
    ELSE LET name == chunks[Head(keys)][field]
         IN  CountBy(Tail(keys), chunks, field,
                     [n \in DOMAIN counts \cup {name} |->
                         IF n = name
                         THEN (IF n \in DOMAIN counts THEN counts[n] ELSE 0) + 1
                         ELSE counts[n]])

\* get_context_statistics; compression_rate is kept as the pair
\* <<compressed_chunks, total_chunks>>, and as <<0, 1>> for the 0 of an
\* empty store
get_context_statistics(chunks, known) ==
    LET keys == Keys(chunks)
        total_chunks == Cardinality(DOMAIN chunks)
        compressed_chunks == CountCompressed(keys, chunks)
    IN  [ total_chunks |-> total_chunks,
          compressed_chunks |-> compressed_chunks,
          total_summaries |-> Len(known),
          type_distribution |-> CountBy(keys, chunks, "context_type", <<>>),
          priority_distribution |-> CountBy(keys, chunks, "priority", <<>>),
          compression_rate |-> IF total_chunks > 0
                               THEN <<compressed_chunks, total_chunks>>
                               ELSE <<0, 1>> ]

----------------------------------------------------------------------------
(* The calls on the store *)

StoreContext(content, context_type, priority) ==
    /\ issued < MaxChunks
    /\ LET context_id == issued + 1
       IN  /\ context_chunks' = [i \in DOMAIN context_chunks \cup {context_id} |->
                                    IF i = context_id
                                    THEN NewChunk(context_id, content,
                                                  context_type, priority,
                                                  clock)
                                    ELSE context_chunks[i]]
           /\ hits' = [i \in DOMAIN hits \cup {context_id} |->
                          IF i = context_id THEN 0 ELSE hits[i]]
           /\ issued' = context_id
           /\ last' = [op |-> "store_context", id |-> context_id]
    /\ UNCHANGED <<context_summaries, clock, ticks>>
    /\ UNCHANGED curatorVars

RetrieveContext(query, context_type, limit) ==
    LET got == Retrieved(context_chunks, query, context_type, limit)
    IN  /\ \A k \in 1..Len(got) : context_chunks[got[k]].access_count < MaxAccess
        /\ context_chunks' = [i \in DOMAIN context_chunks |->
                                 IF i \in Range(got)
                                 THEN Touch(context_chunks[i], clock)
                                 ELSE context_chunks[i]]
        /\ hits' = [i \in DOMAIN hits |->
                       IF i \in Range(got) THEN hits[i] + 1 ELSE hits[i]]
        /\ last' = [op |-> "retrieve_context", ret |-> got]
        /\ UNCHANGED <<context_summaries, issued, clock, ticks>>
        /\ UNCHANGED curatorVars

CompressContext(context_id) ==
    LET r == compress_context(context_chunks, context_id)
    IN  /\ context_chunks' = r.chunks
        /\ last' = [op |-> "compress_context", id |-> context_id,
                    ret |-> r.ret,
                    again |-> (last.op = "compress_context"
                               /\ last.id = context_id)]
        /\ UNCHANGED <<context_summaries, issued, clock, ticks, hits>>
        /\ UNCHANGED curatorVars

\* delete_context of api/context_management_routes.py
DeleteContext(context_id) ==
    /\ IF context_id \in DOMAIN context_chunks
       THEN /\ context_chunks' = Without(context_chunks, context_id)
            /\ hits' = Without(hits, context_id)
            /\ last' = [op |-> "delete_context", id |-> context_id,
                        ret |-> TRUE]
       ELSE /\ UNCHANGED <<context_chunks, hits>>
            /\ last' = [op |-> "delete_context", id |-> context_id,
                        ret |-> FALSE]
    /\ UNCHANGED <<context_summaries, issued, clock, ticks>>
    /\ UNCHANGED curatorVars

PreventDecay ==
    LET r == prevent_decay(context_chunks, clock)
    IN  /\ context_chunks' = r.chunks
        /\ hits' = [i \in DOMAIN r.chunks |-> hits[i]]
        /\ last' = [op |-> "prevent_decay", ret |-> r.ret,
                    raised |-> r.raised, after |-> last.op]
        /\ UNCHANGED <<context_summaries, issued, clock, ticks>>
        /\ UNCHANGED curatorVars

\* summarize_contexts, called through the /summarize route
SummarizeContexts(context_ids) ==
    LET r == summarize_contexts(context_chunks, context_summaries,
                                context_ids, clock)
    IN  /\ r.ret # NoSummaryId => Len(context_summaries) < MaxContextSummaries
        /\ context_summaries' = r.summaries
        /\ last' = [op |-> "summarize_contexts", ids |-> context_ids,
                    ret |-> r.ret,
                    status |-> SummarizeStatus(r.summaries, r.ret)]
        /\ UNCHANGED <<context_chunks, issued, clock, ticks, hits>>
        /\ UNCHANGED curatorVars

\* ContextType(value): the member with that value, or ValueError
ContextTypeOf(value) ==
    IF value \in ContextType THEN [ok |-> TRUE, member |-> value]
    ELSE [ok |-> FALSE]

\* ContextPriority(value) for a str value: the members' values are the ints
\* 1..4 and no str equals an int, so the lookup raises ValueError
ContextPriorityOf(value) ==
    IF \E member \in ContextPriority : <<"int", member>> = <<"str", value>>
    THEN [ok |-> TRUE,
          member |-> CHOOSE member \in ContextPriority :
                         <<"int", member>> = <<"str", value>>]
    ELSE [ok |-> FALSE]

\* store_context of api/context_management_routes.py: the two enum lookups,
\* 400 when either raises ValueError, else the service call
StoreRoute(content, context_type, priority) ==
    LET t == ContextTypeOf(context_type)
        p == ContextPriorityOf(priority)
    IN  IF t.ok /\ p.ok
        THEN StoreContext(content, t.member, p.member)
        ELSE /\ last' = [op |-> "store_route", status |-> 400]
             /\ UNCHANGED <<context_chunks, context_summaries, issued, clock,
                            ticks, hits>>
             /\ UNCHANGED curatorVars

GetContextStatistics ==
    /\ last' = [op |-> "get_context_statistics",
                ret |-> get_context_statistics(context_chunks,
                                               context_summaries)]
    /\ UNCHANGED <<context_chunks, context_summaries, issued, clock, ticks,
                   hits>>
    /\ UNCHANGED curatorVars

\* time passes between calls
Tick(d) ==
    /\ ticks < MaxTicks
    /\ clock' = clock + d
    /\ ticks' = ticks + 1
    /\ UNCHANGED <<context_chunks, context_summaries, issued, hits, last>>
    /\ UNCHANGED curatorVars

Store == \E in \in StoreInputs : StoreContext(in[1], in[2], in[3])

Retrieve == \E query \in Queries, context_type \in TypeFilters, limit \in Limits :
                RetrieveContext(query, context_type, limit)

Compress == \E context_id \in 1..MaxChunks : CompressContext(context_id)

Delete == \E context_id \in 1..MaxChunks : DeleteContext(context_id)

Advance == \E d \in ClockSteps : Tick(d)

Summarize == \E context_ids \in SummarizeInputs : SummarizeContexts(context_ids)

StoreViaRoute == \E in \in RouteInputs : StoreRoute(in[1], in[2], in[3])

----------------------------------------------------------------------------
(* The conversation curator of main.py *)

\* A message text is kept by its shape: `lead` whitespace characters, then
\* the pieces that text.strip().split(". ") yields, each by its length.
Text(lead, pieces) == [lead |-> lead, pieces |-> pieces]

RECURSIVE Sum(_)
Sum(seq) == IF seq = <<>> THEN 0 ELSE Head(seq) + Sum(Tail(seq))

\* len(text)
TextLen(text) ==
    text.lead + Sum(text.pieces)
    + (IF text.pieces = <<>> THEN 0 ELSE 2 * (Len(text.pieces) - 1))

CONTEXT_BUDGET_TOKENS == 8000

\* the empty conversation_id, which create_message does not auto-curate
NoConversation == ""

Tempty == Text(0, <<>>)            \* ""
Tblank == Text(3, <<>>)            \* "   "
Tshort == Text(0, <<12, 20>>)      \* two sentences, 34 characters
Tbig == Text(0, <<2000>>)          \* one sentence of 500 tokens
Thuge == Text(0, <<40000, 8>>)     \* 10002 tokens: over the token budget alone
Tedge == Text(0, <<31990, 8>>)     \* 32000 characters: exactly 8000 tokens

\* (conversation_id, sender, content) of the create_message calls
MessageInputs ==
    { <<"c1", "user", Tshort>>,
      <<"c1", "assistant", Tbig>>,
      <<"c1", "user", Thuge>>,
      <<"c1", "assistant", Tedge>>,
      <<"c1", "user", Tempty>>,
      <<"c1", "assistant", Tblank>>,
      <<NoConversation, "user", Tshort>> }

CurateInputs == {"c1", "c2"}

\* estimate_tokens, on the length of the text
estimate_tokens(len) == IF len = 0 THEN 0 ELSE Max(1, len \div 4)

\* the loop of summarize_messages: the parts it appends, each with the
\* position of its message among the rows handed in
RECURSIVE SummarizeLoop(_, _, _)
SummarizeLoop(msgs, k, budget) ==
    IF k > Len(msgs) THEN <<>>
    ELSE LET m == msgs[k]
         IN  IF m.content.pieces = <<>>
             THEN SummarizeLoop(msgs, k + 1, budget)
             ELSE LET sent == m.content.pieces[1]
                      part == [row |-> k, sender |-> m.sender, sent |-> sent]
                      left == budget - estimate_tokens(sent)
                  IN  IF left <= 0 THEN <<part>>
                      ELSE <<part>> \o SummarizeLoop(msgs, k + 1, left)

\* summarize_messages: "" when there are no parts, else the header and the
\* parts, one per line
summarize_messages(msgs, target_tokens) ==
    LET parts == SummarizeLoop(msgs, 1, target_tokens)
    IN  [empty |-> parts = <<>>, parts |-> parts]

\* db.query(Message).filter(conversation_id == ...).order_by(created_at)
Rows(conversation_id) ==
    SelectSeq(messages, LAMBDA m : m.conversation_id = conversation_id)

TotalTokens(rows) ==
    Sum([k \in 1..Len(rows) |-> estimate_tokens(TextLen(rows[k].content))])

\* OverBudget with a conversation exactly at a budget counted as over it
OverBudgetInclusive(rows) ==
    \/ Len(rows) >= CONTEXT_BUDGET_MESSAGES
    \/ TotalTokens(rows) >= CONTEXT_BUDGET_TOKENS

\* total_messages > CONTEXT_BUDGET_MESSAGES or total_tokens > CONTEXT_BUDGET_TOKENS
OverBudget(rows) ==
    \/ Len(rows) > CONTEXT_BUDGET_MESSAGES
    \/ TotalTokens(rows) > CONTEXT_BUDGET_TOKENS

\* CutoffIdx with the retained share in place of the archived share
CutoffIdxRetained(total_messages) == Max(0, (total_messages * 4) \div 10)

\* max(0, int(total_messages * 0.6)); the float product truncates to
\* floor(6 * total_messages / 10) for every count below 20000
CutoffIdx(total_messages) == Max(0, (total_messages * 6) \div 10)

\* max(256, int(CONTEXT_BUDGET_TOKENS * 0.1))
TargetTokens == Max(256, CONTEXT_BUDGET_TOKENS \div 10)

\* the Summary row both curation paths build; `cutoff_idx` and `rows`
\* record which rows[:cutoff_idx] the text was made from
NewSummary(conversation_id, rows) ==
    LET cutoff_idx == CutoffIdx(Len(rows))
        to_summarize == SubSeq(rows, 1, cutoff_idx)
    IN  [ conversation_id |-> conversation_id,
          summary |-> summarize_messages(to_summarize, TargetTokens),
          period |-> "on_event",
          generated_by |-> "curator_v1",
          cutoff_idx |-> cutoff_idx,
          total_messages |-> Len(rows) ]

\* create_message, with its auto-curation
CreateMessage(conversation_id, sender, content) ==
    /\ Len(messages) < MaxMessages
    /\ messages' = Append(messages, [conversation_id |-> conversation_id,
                                     sender |-> sender,
                                     content |-> content])
    /\ LET rows == SelectSeq(messages',
                             LAMBDA m : m.conversation_id = conversation_id)
           curates == /\ AUTO_CURATE
                      /\ conversation_id # NoConversation
                      /\ OverBudget(rows)
       IN  /\ curates => Len(summaries) < MaxSummaries
           /\ summaries' = IF curates
                           THEN Append(summaries, NewSummary(conversation_id, rows))
                           ELSE summaries
           /\ lastCall' = [op |-> "create_message",
                           conversation_id |-> conversation_id,
                           summarized |-> curates]
    /\ UNCHANGED AUTO_CURATE
    /\ UNCHANGED storeVars

\* curate_conversation
CurateConversation(conversation_id) ==
    LET rows == Rows(conversation_id)
    IN  /\ IF ~OverBudget(rows)
           THEN /\ UNCHANGED summaries
                /\ lastCall' = [op |-> "curate_conversation",
                                conversation_id |-> conversation_id,
                                summarized |-> FALSE]
           ELSE /\ Len(summaries) < MaxSummaries
                /\ summaries' = Append(summaries,
                                       NewSummary(conversation_id, rows))
                /\ lastCall' = [op |-> "curate_conversation",
                                conversation_id |-> conversation_id,
                                summarized |-> TRUE]
        /\ UNCHANGED <<messages, AUTO_CURATE>>
        /\ UNCHANGED storeVars

Post == \E in \in MessageInputs : CreateMessage(in[1], in[2], in[3])

Curate == \E conversation_id \in CurateInputs : CurateConversation(conversation_id)

Init ==
    /\ context_chunks = <<>>
    /\ context_summaries = <<>>
    /\ issued = 0
    /\ clock = 0
    /\ ticks = 0
    /\ hits = <<>>
    /\ last = [op |-> "init"]
    /\ messages = <<>>
    /\ summaries = <<>>
    /\ AUTO_CURATE = FALSE
    /\ lastCall = [op |-> "init"]

Next == Store \/ Retrieve \/ Compress \/ Delete \/ PreventDecay \/ Advance

Spec == Init /\ [][Next]_vars

\* the curator, with AUTO_CURATE as the environment sets it
InitCurator ==
    /\ context_chunks = <<>>
    /\ context_summaries = <<>>
    /\ issued = 0
    /\ clock = 0
    /\ ticks = 0
    /\ hits = <<>>
    /\ last = [op |-> "init"]
    /\ messages = <<>>
    /\ summaries = <<>>
    /\ AUTO_CURATE \in BOOLEAN
    /\ lastCall = [op |-> "init"]

NextCurator == Post \/ Curate

SpecCurator == InitCurator /\ [][NextCurator]_vars

\* the store with summaries made of its chunks, and without retrieval
NextSummaries ==
    Store \/ Summarize \/ Compress \/ Delete \/ PreventDecay \/ Advance

SpecSummaries == Init /\ [][NextSummaries]_vars

\* the store with its store route and its statistics, and without retrieval
NextRoutes ==
    Store \/ StoreViaRoute \/ Compress \/ Delete \/ PreventDecay \/ Advance
    \/ GetContextStatistics

SpecRoutes == Init /\ [][NextRoutes]_vars

\* the store right after one store_context call, for every content length of
\* Lengths and every type and priority, then compressed and deleted
InitLengths ==
    /\ \E n \in Lengths, context_type \in ContextType, priority \in ContextPriority :
           \E content \in {Filled(n), Sentences(n)} :
               context_chunks = <<NewChunk(1, content, context_type, priority, 0)>>
    /\ context_summaries = <<>>
    /\ issued = 1
    /\ clock = 0
    /\ ticks = 0
    /\ hits = <<0>>
    /\ last = [op |-> "store_context", id |-> 1]
    /\ messages = <<>>
    /\ summaries = <<>>
    /\ AUTO_CURATE = FALSE
    /\ lastCall = [op |-> "init"]

NextLengths == Compress \/ Delete

SpecLengths == InitLengths /\ [][NextLengths]_vars

----------------------------------------------------------------------------
(* Properties of the chunk store, checked under Spec *)

\* the steps that are one call of the named operation
SweepStep == last'.op = "prevent_decay" /\ PreventDecay
RetrieveStep(query, context_type, limit) ==
    last'.op = "retrieve_context" /\ RetrieveContext(query, context_type, limit)
CompressStep(context_id) ==
    last'.op = "compress_context" /\ CompressContext(context_id)
DeleteStep(context_id) ==
    last'.op = "delete_context" /\ DeleteContext(context_id)
StoreRouteStep(content, context_type, priority) ==
    /\ last'.op \in {"store_route", "store_context"}
    /\ StoreRoute(content, context_type, priority)
StatisticsStep ==
    last'.op = "get_context_statistics" /\ GetContextStatistics
SummarizeStep(context_ids) ==
    last'.op = "summarize_contexts" /\ SummarizeContexts(context_ids)
StoreStep(content, context_type, priority) ==
    last'.op = "store_context" /\ StoreContext(content, context_type, priority)

\* C1: in every reachable state every chunk of the store has compressed = TRUE
\* exactly when its summary is not None.
C1_CompressedIffSummary ==
    \A id \in DOMAIN context_chunks :
        context_chunks[id].compressed <=> context_chunks[id].summary # Null

C1_Witness ==
    /\ \E id \in DOMAIN context_chunks :
           context_chunks[id].compressed /\ context_chunks[id].summary # Null
    /\ \E id \in DOMAIN context_chunks :
           ~context_chunks[id].compressed /\ context_chunks[id].summary = Null

\* C2: after prevent_decay every chunk that was decayed and had
\* importance_score >= 0.5, whatever its content length, is still in the store,
\* is compressed and has a summary.
C2_SweepCompressesImportant ==
    [][SweepStep =>
         \A id \in DOMAIN context_chunks :
             (Decayed(context_chunks[id], clock)
              /\ 2 * context_chunks[id].importance_score >= ScoreScale)
             => /\ id \in DOMAIN context_chunks'
                /\ context_chunks'[id].compressed
                /\ context_chunks'[id].summary # Null]_vars

\* C3: after prevent_decay no chunk is left that was decayed with
\* importance_score < 0.5, and every chunk the sweep removed was such a chunk.
C3_SweepEvictsExactlyLowDecayed ==
    [][SweepStep =>
         \A id \in DOMAIN context_chunks :
             id \notin DOMAIN context_chunks'
             <=> (/\ clock - context_chunks[id].last_accessed > decay_threshold
                  /\ 2 * context_chunks[id].importance_score < ScoreScale)]_vars

C3_Witness ==
    /\ last.op = "prevent_decay"
    /\ last.ret = 2
    /\ Cardinality(DOMAIN context_chunks) = 1

\* C7: a compress_context call that directly follows a compress_context call
\* on the same id returns false and leaves the store as the first call left it.
C7_CompressIdempotent ==
    [][\A id \in 1..MaxChunks :
          (CompressStep(id) /\ last.op = "compress_context" /\ last.id = id)
          => (context_chunks' = context_chunks /\ last'.ret = FALSE)]_vars

C7_Witness ==
    /\ last.op = "compress_context"
    /\ last.again
    /\ last.id \in DOMAIN context_chunks
    /\ context_chunks[last.id].compressed
    /\ last.ret = FALSE

\* C8: every chunk a retrieve_context call returns has its access_count raised
\* by exactly one and its last_accessed not moved backwards.
C8_RetrieveAccessMonotonic ==
    [][(\E query \in Queries, context_type \in TypeFilters, limit \in Limits :
            RetrieveStep(query, context_type, limit)) =>
         \A k \in 1..Len(last'.ret) :
             LET id == last'.ret[k]
             IN  /\ id \in DOMAIN context_chunks /\ id \in DOMAIN context_chunks'
                 /\ context_chunks'[id].access_count
                        = context_chunks[id].access_count + 1
                 /\ context_chunks'[id].last_accessed
                        >= context_chunks[id].last_accessed]_vars

C8_Witness ==
    /\ last.op = "retrieve_context"
    /\ Len(last.ret) >= 2
    /\ \A k \in 1..Len(last.ret) :
           /\ context_chunks[last.ret[k]].access_count >= 2
           /\ context_chunks[last.ret[k]].last_accessed
                  > context_chunks[last.ret[k]].created_at

\* the chunks that match the type filter and have relevance > 0.3
Qualifying(query, context_type) ==
    {id \in DOMAIN context_chunks :
        /\ (context_type = Null
            \/ context_chunks[id].context_type = context_type)
        /\ AboveThreshold(
               RelevanceOf(query, context_chunks[id].content))}

\* C9: retrieve_context(query, type_filter, limit) returns the first `limit`
\* qualifying chunks in descending order of relevance: at most `limit` of them
\* (none for a limit below 1), for every limit the call accepts, each one
\* qualifying, none returned twice,
\* none left out while a slot is free, none less relevant before a more
\* relevant one, and no chunk left out that is more relevant than one returned.
C9_RetrieveFirstLimit ==
    [][\A query \in Queries, context_type \in TypeFilters, limit \in Limits :
          RetrieveStep(query, context_type, limit) =>
          LET ret == last'.ret
              Q == Qualifying(query, context_type)
              rel(id) == RelevanceOf(query, context_chunks[id].content)
          IN  /\ Len(ret) <= Max(limit, 0)
              /\ Len(ret) = Min(Max(limit, 0), Cardinality(Q))
              /\ \A k \in 1..Len(ret) : ret[k] \in Q
              /\ \A j, k \in 1..Len(ret) : j < k =>
                     /\ ret[j] # ret[k]
                     /\ ~RelGreater(rel(ret[k]), rel(ret[j]))
              /\ \A id \in Q \ Range(ret) : \A k \in 1..Len(ret) :
                     ~RelGreater(rel(id), rel(ret[k]))]_vars

\* C10: the access_count of every chunk is 1 plus the number of retrieve_context
\* calls that returned it, however the calls on the store are interleaved.
C10_NoLostIncrement ==
    \A id \in DOMAIN context_chunks :
        context_chunks[id].access_count = 1 + hits[id]

C10_Witness ==
    \E id \in DOMAIN context_chunks :
        /\ hits[id] >= 2
        /\ context_chunks[id].compressed
        /\ last.op = "retrieve_context"
        /\ id \in Range(last.ret)

C12_SweepCountsTransitions ==
    [][SweepStep =>
         /\ last'.ret =
                Cardinality(DOMAIN context_chunks \ DOMAIN context_chunks')
                + Cardinality({id \in DOMAIN context_chunks \cap DOMAIN context_chunks' :
                                  /\ ~context_chunks[id].compressed
                                  /\ context_chunks'[id].compressed})
         /\ last.op = "prevent_decay" => last'.ret = 0]_vars

\* C13: a store_context call returns an id that was not in the store and adds
\* exactly one chunk under it, with the given content, type and priority,
\* access_count = 1, last_accessed = created_at = the time of the call,
\* compressed = FALSE and summary = None; every chunk stored before is unchanged.
C13_StorePostcondition ==
    [][\A in \in StoreInputs :
          StoreStep(in[1], in[2], in[3]) =>
          LET id == last'.id
          IN  /\ id \notin DOMAIN context_chunks
              /\ DOMAIN context_chunks' = DOMAIN context_chunks \cup {id}
              /\ context_chunks'[id].id = id
              /\ context_chunks'[id].content = in[1]
              /\ context_chunks'[id].context_type = in[2]
              /\ context_chunks'[id].priority = in[3]
              /\ context_chunks'[id].access_count = 1
              /\ context_chunks'[id].created_at = clock
              /\ context_chunks'[id].last_accessed = context_chunks'[id].created_at
              /\ context_chunks'[id].compressed = FALSE
              /\ context_chunks'[id].summary = Null
              /\ \A j \in DOMAIN context_chunks :
                     context_chunks'[j] = context_chunks[j]]_vars

\* a second chunk stored next to one that has been retrieved and compressed
C13_Witness ==
    /\ last.op = "store_context"
    /\ last.id = 2
    /\ 1 \in DOMAIN context_chunks
    /\ context_chunks[1].compressed
    /\ context_chunks[1].access_count > 1
    /\ context_chunks[2].access_count = 1
    /\ context_chunks[2].created_at > context_chunks[1].created_at

\* C16: no call changes the id, created_at, context_type, priority or
\* importance_score of a chunk that stays in the store; a compress_context or
\* prevent_decay call changes nothing of it but content, compressed and
\* summary; a retrieve_context call changes nothing of it but last_accessed and
\* access_count.
C16_ImmutableFields ==
    [][\A id \in DOMAIN context_chunks \cap DOMAIN context_chunks' :
          LET old == context_chunks[id]
              new == context_chunks'[id]
          IN  /\ new.id = old.id
              /\ new.created_at = old.created_at
              /\ new.context_type = old.context_type
              /\ new.priority = old.priority
              /\ new.importance_score = old.importance_score
              /\ last'.op \in {"compress_context", "prevent_decay"} =>
                     /\ new.last_accessed = old.last_accessed
                     /\ new.access_count = old.access_count
              /\ last'.op = "retrieve_context" =>
                     /\ new.content = old.content
                     /\ new.compressed = old.compressed
                     /\ new.summary = old.summary]_vars

\* a chunk that was retrieved and then compressed by a sweep
C16_Witness ==
    /\ last.op = "prevent_decay"
    /\ last.ret >= 1
    /\ \E id \in DOMAIN context_chunks :
           /\ context_chunks[id].compressed
           /\ context_chunks[id].access_count >= 2
           /\ context_chunks[id].importance_score =
                  _calculate_importance_score(Cmid, "meditation_insight", 4)

\* C17: along every execution every chunk has access_count >= 1 and
\* last_accessed >= created_at, and while it stays in the store its compressed
\* flag never goes from true to false, its access_count never decreases and
\* its last_accessed never decreases.
C17_MonotoneLifecycle ==
    [][\A id \in DOMAIN context_chunks' :
          /\ context_chunks'[id].access_count >= 1
          /\ context_chunks'[id].last_accessed >= context_chunks'[id].created_at
          /\ id \in DOMAIN context_chunks =>
                 /\ context_chunks[id].compressed
                        => context_chunks'[id].compressed
                 /\ context_chunks'[id].access_count
                        >= context_chunks[id].access_count
                 /\ context_chunks'[id].last_accessed
                        >= context_chunks[id].last_accessed]_vars

\* a compressed chunk retrieved again at a later time
C17_Witness ==
    /\ last.op = "retrieve_context"
    /\ \E id \in Range(last.ret) :
           /\ context_chunks[id].compressed
           /\ context_chunks[id].access_count = MaxAccess
           /\ context_chunks[id].last_accessed = clock
           /\ clock > context_chunks[id].created_at

\* C23: of two chunks of equal relevance that a retrieve_context call returns,
\* the one with the more recent last_accessed (as it was before the call)
\* comes first; and, for a limit of 1 or more, no qualifying chunk is left out
\* in favour of a returned chunk of equal relevance and older last_accessed.
C23_RetrieveTieBreak ==
    [][\A query \in Queries, context_type \in TypeFilters, limit \in Limits :
          RetrieveStep(query, context_type, limit) =>
          LET ret == last'.ret
              Q == Qualifying(query, context_type)
              rel(id) == RelevanceOf(query, context_chunks[id].content)
              tied(a, b) == ~RelGreater(rel(a), rel(b)) /\ ~RelGreater(rel(b), rel(a))
          IN  /\ \A j, k \in 1..Len(ret) :
                     (j < k /\ tied(ret[j], ret[k])) =>
                     context_chunks[ret[j]].last_accessed
                         >= context_chunks[ret[k]].last_accessed
              /\ limit >= 1 =>
                     \A id \in Q \ Range(ret) : \A k \in 1..Len(ret) :
                         tied(id, ret[k]) =>
                         context_chunks[ret[k]].last_accessed
                             >= context_chunks[id].last_accessed]_vars

\* C30: prevent_decay neither removes nor changes a chunk that was last
\* accessed 30 days ago or less, whatever its importance_score, so a chunk that
\* retrieve_context returned at time t survives every sweep up to t + 30 days;
\* retrieve_context adds and removes no chunk and leaves every chunk it does
\* not return unchanged.
C30_FreshUntouchedBySweep ==
    [][/\ SweepStep =>
           \A id \in DOMAIN context_chunks :
               clock - context_chunks[id].last_accessed <= 30 =>
               /\ id \in DOMAIN context_chunks'
               /\ context_chunks'[id] = context_chunks[id]
       /\ last'.op = "retrieve_context" =>
           /\ DOMAIN context_chunks' = DOMAIN context_chunks
           /\ \A id \in DOMAIN context_chunks \ Range(last'.ret) :
                  context_chunks'[id] = context_chunks[id]]_vars

\* a sweep exactly 30 days after the retrieval of a chunk of low importance:
\* the chunk is still there, as it was
C30_Witness ==
    /\ last.op = "prevent_decay"
    /\ \E id \in DOMAIN context_chunks :
           /\ hits[id] >= 1
           /\ clock - context_chunks[id].last_accessed = 30
           /\ 2 * context_chunks[id].importance_score < ScoreScale
           /\ ~context_chunks[id].compressed

----------------------------------------------------------------------------
(* Properties of compression by content length, checked under SpecLengths *)

\* the weights the score is specified with, in hundredths
PriorityWeight(priority) ==
    CASE priority = 1 -> 25 [] priority = 2 -> 50
      [] priority = 3 -> 75 [] priority = 4 -> 100

TypeWeight(context_type) ==
    CASE context_type = "conversation" -> 80
      [] context_type = "code_analysis" -> 90
      [] context_type = "debate_session" -> 95
      [] context_type = "meditation_insight" -> 100
      [] context_type = "training_data" -> 90
      [] context_type = "user_feedback" -> 85

\* C22: the importance score computed at store time equals
\* 0.4 * priority weight + 0.3 * min(len(content) / 1000, 1) + 0.3 * type weight
\* for every content, type and priority, whatever the characters of the
\* content; it lies in [0, 1]; for 50 characters, type conversation and
\* priority medium it is 0.455.  (A chunk that is not compressed still has the
\* content it was stored with.)
C22_ImportanceScore ==
    \A id \in DOMAIN context_chunks :
        ~context_chunks[id].compressed =>
        LET chunk == context_chunks[id]
            L == Len(chunk.content)
        IN  /\ 10000 * chunk.importance_score =
                   ScoreScale * (40 * PriorityWeight(chunk.priority)
                                 + 3 * (IF L <= 1000 THEN L ELSE 1000)
                                 + 30 * TypeWeight(chunk.context_type))
            /\ chunk.importance_score >= 0
            /\ chunk.importance_score <= ScoreScale
            /\ (L = 50 /\ chunk.context_type = "conversation"
                 /\ chunk.priority = 2)
                   => 1000 * chunk.importance_score = 455 * ScoreScale

\* a chunk of 50 characters, type conversation, priority medium, and sentences
\* for content
C22_Witness ==
    /\ 1 \in DOMAIN context_chunks
    /\ context_chunks[1].content = Sentences(50)
    /\ context_chunks[1].context_type = "conversation"
    /\ context_chunks[1].priority = 2
    /\ 1000 * context_chunks[1].importance_score = 455 * ScoreScale
    /\ last.op = "compress_context"

\* C14: compress_context(id) returns false and leaves the store unchanged when
\* id is not in the store, when the chunk is already compressed, or when its
\* content is shorter than 100 characters; for an uncompressed chunk of 100
\* characters or more it returns true and sets compressed.  delete_context of
\* an id that is not in the store reports failure and leaves the store unchanged.
C14_CompressAndDeleteNoOps ==
    [][\A id \in 1..MaxChunks :
          /\ CompressStep(id) =>
                 IF \/ id \notin DOMAIN context_chunks
                    \/ context_chunks[id].compressed
                    \/ Len(context_chunks[id].content) < 100
                 THEN /\ last'.ret = FALSE
                      /\ context_chunks' = context_chunks
                 ELSE /\ last'.ret = TRUE
                      /\ context_chunks'[id].compressed
          /\ (DeleteStep(id) /\ id \notin DOMAIN context_chunks) =>
                 /\ last'.ret = FALSE
                 /\ context_chunks' = context_chunks]_vars

\* a chunk of exactly 100 characters has just been compressed
C14_Witness ==
    /\ last.op = "compress_context"
    /\ last.ret = TRUE
    /\ last.id \in DOMAIN context_chunks
    /\ context_chunks[last.id].compressed
    /\ Len(context_chunks[last.id].content) = 100

\* C15: for every chunk on which compress_context returns true, the content
\* after the call is not longer than the content before the call.
C15_CompressionShrinks ==
    [][\A id \in 1..MaxChunks :
          (CompressStep(id) /\ last'.ret = TRUE) =>
          Len(context_chunks'[id].content) <= Len(context_chunks[id].content)]_vars

\* C24: after a compress_context call that returns true on a chunk whose
\* content had length L, the content is the first 200 characters followed by
\* the marker when L <= 400, and the first 200 characters, the marker and the
\* last 200 characters when L > 400; and the summary recorded is the one
\* _generate_summary makes of the content as it was before the call.
C24_CompressedForm ==
    [][\A id \in 1..MaxChunks :
          (CompressStep(id) /\ last'.ret = TRUE) =>
          LET old == context_chunks[id].content
              new == context_chunks'[id].content
              L == Len(old)
          IN  /\ IF L <= 400
                 THEN new = SubSeq(old, 1, Min(200, L)) \o MarkerShort
                 ELSE new = SubSeq(old, 1, 200) \o MarkerLong
                            \o SubSeq(old, L - 199, L)
              /\ context_chunks'[id].summary = _generate_summary(old)]_vars

----------------------------------------------------------------------------
(* Properties of summaries of chunks, checked under SpecSummaries *)

\* C18: summarize_contexts on a non-empty list of ids that are all in the
\* store creates exactly one summary, returns its id, and records the input
\* ids in input order as its source chunks; no later call (compress, delete,
\* sweep, or any other) removes or changes a summary: it stays retrievable
\* under its id.
C18_SummarizeRoundTrip ==
    [][/\ \A context_ids \in SummarizeInputs :
              (/\ SummarizeStep(context_ids)
               /\ context_ids # <<>>
               /\ Range(context_ids) \subseteq DOMAIN context_chunks) =>
              /\ Len(context_summaries') = Len(context_summaries) + 1
              /\ last'.ret \in DOMAIN context_summaries'
              /\ last'.ret \notin DOMAIN context_summaries
              /\ context_summaries'[last'.ret].id = last'.ret
              /\ context_summaries'[last'.ret].original_chunks = context_ids
              /\ last'.status = 200
       /\ \A summary_id \in DOMAIN context_summaries :
              /\ summary_id \in DOMAIN context_summaries'
              /\ context_summaries'[summary_id] = context_summaries[summary_id]]_vars

\* a summary of chunks 2 and 1, both of which have since left the store,
\* the last of them in a sweep
C18_Witness ==
    /\ last.op = "prevent_decay"
    /\ last.ret >= 1
    /\ DOMAIN context_chunks = {}
    /\ \E summary_id \in DOMAIN context_summaries :
           context_summaries[summary_id].original_chunks = <<2, 1>>

\* C19: summarize_contexts called with an empty id list, or with a list none
\* of whose ids is in the store, creates no summary and is answered with an
\* error of the InvalidArgument class (status 400 or 422).
C19_EmptySummarizeIsInvalidArgument ==
    [][\A context_ids \in SummarizeInputs :
          (/\ SummarizeStep(context_ids)
           /\ Range(context_ids) \cap DOMAIN context_chunks = {}) =>
          /\ context_summaries' = context_summaries
          /\ last'.status \in {400, 422}]_vars

\* C29: every id that a summarize_contexts call records in the original_chunks
\* of the summary it creates is the id of a chunk that was in the store during
\* the call (and so was part of the summarized text); ids it did not find are
\* not recorded.
C29_SourcesWerePresent ==
    [][\A context_ids \in SummarizeInputs :
          (SummarizeStep(context_ids) /\ last'.ret # NoSummaryId) =>
          \A k \in 1..Len(context_summaries'[last'.ret].original_chunks) :
              context_summaries'[last'.ret].original_chunks[k]
                  \in DOMAIN context_chunks]_vars

----------------------------------------------------------------------------
(* Properties of the statistics and the store route, checked under SpecRoutes *)

\* the sum of the values of a finite function
RECURSIVE SumOver(_)
SumOver(f) ==
    IF DOMAIN f = {} THEN 0
    ELSE LET x == CHOOSE x \in DOMAIN f : TRUE
         IN  f[x] + SumOver([y \in DOMAIN f \ {x} |-> f[y]])

\* C21: what get_context_statistics returns agrees with the store at the time
\* of the call: total_chunks is the number of chunks, compressed_chunks the
\* number of compressed chunks, the per-type counts and the per-priority
\* counts each sum to total_chunks, compression_rate is compressed_chunks /
\* total_chunks (0 for the empty store); the call changes no chunk.
C21_StatisticsConsistent ==
    [][StatisticsStep =>
         LET stats == last'.ret
             total == Cardinality(DOMAIN context_chunks)
             compressed == Cardinality({id \in DOMAIN context_chunks :
                                           context_chunks[id].compressed})
         IN  /\ context_chunks' = context_chunks
             /\ stats.total_chunks = total
             /\ stats.compressed_chunks = compressed
             /\ SumOver(stats.type_distribution) = total
             /\ SumOver(stats.priority_distribution) = total
             /\ \A t \in DOMAIN stats.type_distribution :
                    stats.type_distribution[t] =
                        Cardinality({id \in DOMAIN context_chunks :
                                        context_chunks[id].context_type = t})
             /\ stats.compression_rate[2] > 0
             /\ IF total = 0
                THEN stats.compression_rate[1] = 0
                ELSE stats.compression_rate[1] * total
                         = compressed * stats.compression_rate[2]]_vars

\* statistics of a store of two chunks of different types, one compressed
C21_Witness ==
    /\ last.op = "get_context_statistics"
    /\ last.ret.total_chunks = 2
    /\ last.ret.compressed_chunks = 1
    /\ Cardinality(DOMAIN last.ret.type_distribution) = 2
    /\ last.ret.compression_rate = <<1, 2>>

\* the priority a priority name stands for
PriorityNamed(name) ==
    CASE name = "low" -> 1 [] name = "medium" -> 2
      [] name = "high" -> 3 [] name = "critical" -> 4

\* C28: a request to the /store route with a valid context type and one of the
\* priority names low, medium (also the default), high, critical stores one
\* chunk of that type and priority; a request with an unknown type or
\* priority is answered with status 400 and leaves the store unchanged.
C28_StoreRoute ==
    [][\A in \in RouteInputs :
          StoreRouteStep(in[1], in[2], in[3]) =>
          IF in[2] \in ContextType
             /\ in[3] \in {"low", "medium", "high", "critical"}
          THEN /\ issued' = issued + 1
               /\ DOMAIN context_chunks' = DOMAIN context_chunks \cup {issued'}
               /\ context_chunks'[issued'].content = in[1]
               /\ context_chunks'[issued'].context_type = in[2]
               /\ context_chunks'[issued'].priority = PriorityNamed(in[3])
          ELSE /\ last'.status = 400
               /\ context_chunks' = context_chunks]_vars

----------------------------------------------------------------------------
(* Properties of the conversation curator, checked under SpecCurator *)

\* C4: a curate_conversation call that directly follows a summary-creating
\* curate_conversation call on the same conversation, with no message appended
\* in between, creates no further summary.
C4_SecondCurateAddsNothing ==
    [][\A conversation_id \in CurateInputs :
          (/\ CurateConversation(conversation_id)
           /\ lastCall.op = "curate_conversation"
           /\ lastCall.conversation_id = conversation_id
           /\ lastCall.summarized)
          => Len(summaries') = Len(summaries)]_vars

\* C5: a curate_conversation call on a conversation of N messages that is over
\* budget appends exactly one summary; its text is made of first sentences of
\* messages among the oldest floor(0.6 * N), in append order, and of none of
\* the newer ones; the messages table is left as it was.
C5_CurateArchivesOldestShare ==
    [][\A conversation_id \in CurateInputs :
          CurateConversation(conversation_id) =>
          LET rows == Rows(conversation_id)
              N == Len(rows)
              over == N > CONTEXT_BUDGET_MESSAGES
                      \/ TotalTokens(rows) > CONTEXT_BUDGET_TOKENS
              new == summaries'[Len(summaries')]
              parts == new.summary.parts
          IN  /\ messages' = messages
              /\ ~over => summaries' = summaries
              /\ over =>
                 /\ Len(summaries') = Len(summaries) + 1
                 /\ SubSeq(summaries', 1, Len(summaries)) = summaries
                 /\ new.conversation_id = conversation_id
                 /\ new.cutoff_idx = (6 * N) \div 10
                 /\ \A k \in 1..Len(parts) :
                        /\ parts[k].row \in 1..((6 * N) \div 10)
                        /\ parts[k].sender = rows[parts[k].row].sender
                        /\ rows[parts[k].row].content.pieces # <<>>
                        /\ parts[k].sent = rows[parts[k].row].content.pieces[1]
                 /\ \A j, k \in 1..Len(parts) :
                        j < k => parts[j].row < parts[k].row]_vars

C5_Witness ==
    /\ lastCall.op = "curate_conversation"
    /\ lastCall.summarized
    /\ Len(Rows(lastCall.conversation_id)) = 4
    /\ summaries[Len(summaries)].cutoff_idx = 2
    /\ Len(summaries[Len(summaries)].summary.parts) = 2

\* C6: of the curation triggers that act on the same rows of one conversation
\* (two curate calls, or a curate call and an auto-curating create_message) at
\* most one creates a summary: no two summaries of a conversation archive the
\* same (non-empty) prefix of the same rows.
C6_NoPrefixArchivedTwice ==
    \A i, j \in 1..Len(summaries) :
        (i # j /\ summaries[i].conversation_id = summaries[j].conversation_id)
        => ~(/\ summaries[i].cutoff_idx >= 1
             /\ summaries[i].total_messages = summaries[j].total_messages
             /\ summaries[i].cutoff_idx = summaries[j].cutoff_idx)

\* C20: curate_conversation on a conversation with at most
\* CONTEXT_BUDGET_MESSAGES messages and at most 8000 estimated tokens, the
\* budgets themselves included, creates no summary and reports
\* summarized = false; on a conversation over either budget it creates a summary
\* and reports summarized = true.
C20_CurateUnderBudgetNoOp ==
    [][\A conversation_id \in CurateInputs :
          CurateConversation(conversation_id) =>
          LET rows == Rows(conversation_id)
          IN  IF /\ Len(rows) <= CONTEXT_BUDGET_MESSAGES
                 /\ TotalTokens(rows) <= 8000
              THEN /\ summaries' = summaries
                   /\ lastCall'.summarized = FALSE
              ELSE /\ Len(summaries') = Len(summaries) + 1
                   /\ lastCall'.summarized = TRUE]_vars

\* a curate call on a conversation exactly at both budgets
C20_Witness ==
    /\ lastCall.op = "curate_conversation"
    /\ lastCall.summarized = FALSE
    /\ Len(Rows(lastCall.conversation_id)) = CONTEXT_BUDGET_MESSAGES
    /\ TotalTokens(Rows(lastCall.conversation_id)) = 8000

\* C25: the token estimates of the first sentences that summarize_messages
\* put into a summary add up to at most target_tokens = max(256, 10% of the
\* token budget).
C25_SummaryWithinTarget ==
    \A i \in 1..Len(summaries) :
        LET parts == summaries[i].summary.parts
        IN  Sum([k \in 1..Len(parts) |-> estimate_tokens(parts[k].sent)])
                <= Max(256, CONTEXT_BUDGET_TOKENS \div 10)

\* C26: the token count curate_conversation tests against the budget is the
\* sum over the conversation's messages of max(1, floor(len(text) / 4)): every
\* message, an empty one included, counts for at least 1 token, and the call
\* summarizes exactly when the message count or that sum is over its budget.
C26_TokenEstimate ==
    [][\A conversation_id \in CurateInputs :
          CurateConversation(conversation_id) =>
          LET rows == Rows(conversation_id)
              tokens == Sum([k \in 1..Len(rows) |->
                                Max(1, TextLen(rows[k].content) \div 4)])
          IN  /\ \A k \in 1..Len(rows) :
                     estimate_tokens(TextLen(rows[k].content)) >= 1
              /\ TotalTokens(rows) = tokens
              /\ lastCall'.summarized <=>
                     (Len(rows) > CONTEXT_BUDGET_MESSAGES \/ tokens > 8000)]_vars

\* C27: every Summary row that curate_conversation or the auto-curation of
\* create_message has persisted was made from at least one message and has a
\* non-empty text.
C27_SummaryArchivesSomething ==
    \A i \in 1..Len(summaries) :
        /\ summaries[i].cutoff_idx >= 1
        /\ ~summaries[i].summary.empty

====
